---- MODULE Spec2Model ----
(***************************************************************************)
(* Command encoding layer of wgpu-native (src/wgpu-native/src/command/     *)
(* mod.rs): wgpu_command_encoder_finish, command_encoder_begin_render_pass,*)
(* command_encoder_begin_compute_pass and CommandBuffer::insert_barriers.  *)
(* Every handler holds the write lock of HUB.command_buffers from its      *)
(* first statement to its return, so each handler is one atomic action.    *)
(* A panic unwinds the call: what the call had mutated stays mutated.      *)
(*                                                                         *)
(* Specifications:                                                         *)
(*   Spec         calls of all entry points on two encoders, two threads   *)
(*   SpecPass     one begin_render_pass, every descriptor and view format  *)
(*   SpecTwo      consecutive begin_render_pass calls on one encoder       *)
(*   SpecBarriers insert_barriers calls on one encoder's trackers          *)
(*   SpecLife     passes begun and ended, encoders finished                *)
(*   SpecTrack    begin_render_pass on an encoder with recorded usages     *)
(*   SpecLocks    two threads executing the entry points lock by lock      *)
(***************************************************************************)
EXTENDS Integers, Sequences, FiniteSets, TLC

VARIABLES
    command_buffers,  \* HUB.command_buffers : CommandEncoderId -> CommandBuffer
    devices,          \* HUB.devices : DeviceId -> [render_passes, framebuffers]
    texture_views,    \* HUB.texture_views : TextureViewId -> TextureView
    textures,         \* HUB.textures : TextureId -> Texture
    hal,              \* the native backend: the objects it has created
    passes,           \* the pass handles returned so far
    last,             \* what the most recent call did and returned
    nops,             \* number of calls made
    frames,           \* per thread: the call it is executing and its position
    locks             \* the locks of HUB and of the device: who holds them

vars == <<command_buffers, devices, texture_views, textures, hal, passes, last, nops,
          frames, locks>>

----------------------------------------------------------------------------
(* Bounds of the exploration *)

MaxOps == 3        \* calls per behaviour of Spec
MaxColors == 2     \* color attachments per descriptor of SpecPass and SpecTwo
MaxCalls == 2      \* begin_render_pass calls per behaviour of SpecTwo
MaxMerges == 2     \* insert_barriers calls per behaviour of SpecBarriers

----------------------------------------------------------------------------
(* Values *)

NULL == "null"

(* Option<T>: None, or Some(x) *)
None == <<>>
Some(x) == <<x>>

ThreadIds == {"t1", "t2"}
CommandEncoderIds == {"e1", "e2"}
DeviceIds == {"d1"}
TextureViewIds == {"v1", "v2", "v3", "v4"}
TextureIds == {"x1", "x2", "x3"}
BufferIds == {"b1"}

LoadOp == {"Clear", "Load"}
StoreOp == {"Store"}
Colors == {"rgba0001"}

ChannelType ==
    {"Unorm", "Snorm", "Uscaled", "Sscaled", "Uint", "Sint", "Ufloat", "Sfloat", "Srgb"}

Stitch == {"Init", "Last"}

(* Usage states of the trackers; the empty set of flags is "undefined". *)
TextureUsageEmpty == "EMPTY"
TextureUsage == {TextureUsageEmpty, "SAMPLED", "OUTPUT_ATTACHMENT"}
BufferUsage == {"VERTEX", "TRANSFER_DST"}

Extent1 == [width |-> 4, height |-> 4]
Extent2 == [width |-> 8, height |-> 4]

----------------------------------------------------------------------------
(* Helpers on sequences and functions *)

SeqsUpTo(S, n) == UNION {[1 .. k -> S] : k \in 0 .. n}

Range(s) == {s[i] : i \in DOMAIN s}

Put(f, k, v) == [x \in DOMAIN f \cup {k} |-> IF x = k THEN v ELSE f[x]]

EmptyMap == [x \in {} |-> NULL]

RECURSIVE SetToSeq(_)
(* The elements of a finite set in one fixed order (a map's iteration order). *)
SetToSeq(S) ==
    IF S = {} THEN <<>>
    ELSE LET x == CHOOSE y \in S : TRUE IN <<x>> \o SetToSeq(S \ {x})

RECURSIVE FlatMap(_, _)
(* iter.flat_map(f) for an f that yields a sequence per element: s is the
   sequence of the per-element results. *)
FlatMap(s, i) == IF i > Len(s) THEN <<>> ELSE s[i] \o FlatMap(s, i + 1)

----------------------------------------------------------------------------
(* conv: conversions from the API's types to the native backend's *)

TextureFormat ==
    {"R8g8b8a8Unorm", "R8g8b8a8Snorm", "R8g8b8a8Uscaled", "R8g8b8a8Sscaled",
     "R8g8b8a8Uint", "R8g8b8a8Sint", "R8g8b8a8Srgb", "R16g16b16a16Float",
     "B10g11r11Ufloat", "D32FloatS8Uint"}

(* conv::map_texture_format: the native format, as (surface type, channel type). *)
map_texture_format(f) ==
    CASE f = "R8g8b8a8Unorm"     -> [surface |-> "R8_G8_B8_A8", channel |-> "Unorm"]
      [] f = "R8g8b8a8Snorm"     -> [surface |-> "R8_G8_B8_A8", channel |-> "Snorm"]
      [] f = "R8g8b8a8Uscaled"   -> [surface |-> "R8_G8_B8_A8", channel |-> "Uscaled"]
      [] f = "R8g8b8a8Sscaled"   -> [surface |-> "R8_G8_B8_A8", channel |-> "Sscaled"]
      [] f = "R8g8b8a8Uint"      -> [surface |-> "R8_G8_B8_A8", channel |-> "Uint"]
      [] f = "R8g8b8a8Sint"      -> [surface |-> "R8_G8_B8_A8", channel |-> "Sint"]
      [] f = "R8g8b8a8Srgb"      -> [surface |-> "R8_G8_B8_A8", channel |-> "Srgb"]
      [] f = "R16g16b16a16Float" -> [surface |-> "R16_G16_B16_A16", channel |-> "Sfloat"]
      [] f = "B10g11r11Ufloat"   -> [surface |-> "B10_G11_R11", channel |-> "Ufloat"]
      [] f = "D32FloatS8Uint"    -> [surface |-> "D32_S8", channel |-> "Sfloat"]

(* hal::format::Format::base_format *)
base_format(format) == <<format.surface, format.channel>>

(* conv::map_load_store_ops *)
map_load_store_ops(load, store) ==
    [load  |-> IF load = "Clear" THEN "AttachmentLoadOp::Clear" ELSE "AttachmentLoadOp::Load",
     store |-> "AttachmentStoreOp::Store"]

DONT_CARE == [load |-> "AttachmentLoadOp::DontCare", store |-> "AttachmentStoreOp::DontCare"]

(* conv::map_texture_state: (access, layout) of a usage for the given aspects *)
map_texture_state(usage, aspects) ==
    CASE usage = TextureUsageEmpty -> <<"Access::empty", "Undefined">>
      [] usage = "SAMPLED" -> <<"SHADER_READ", "ShaderReadOnlyOptimal">>
      [] usage = "OUTPUT_ATTACHMENT" /\ aspects = "COLOR" ->
            <<"COLOR_ATTACHMENT_WRITE", "ColorAttachmentOptimal">>
      [] usage = "OUTPUT_ATTACHMENT" /\ aspects # "COLOR" ->
            <<"DEPTH_STENCIL_ATTACHMENT_WRITE", "DepthStencilAttachmentOptimal">>

(* conv::map_buffer_state: the access flags of a buffer usage *)
map_buffer_state(usage) ==
    CASE usage = "VERTEX" -> "VERTEX_BUFFER_READ"
      [] usage = "TRANSFER_DST" -> "TRANSFER_WRITE"

(* conv::map_color_f32 / map_color_i32 / map_color_u32 *)
map_color_f32(c) == <<"f32", c>>
map_color_i32(c) == <<"i32", c>>
map_color_u32(c) == <<"u32", c>>

----------------------------------------------------------------------------
(* track: the per-command-buffer usage tracker *)

EmptyTrackerSet == [buffers |-> EmptyMap, textures |-> EmptyMap, views |-> EmptyMap]

(* Tracker::query: the usage recorded for id, registering it with the default
   usage on first touch. *)
query(map, id, default) ==
    IF id \in DOMAIN map
    THEN [map |-> map, usage |-> map[id]]
    ELSE [map |-> Put(map, id, default), usage |-> default]

(* Tracker::consume_by_replace: the base takes every state of head; a
   transition is produced for every id recorded in base whose state changes. *)
consume_by_replace(base, head, stitch) ==
    LET changed == {id \in DOMAIN head \cap DOMAIN base : base[id] # head[id]}
    IN  [map |-> [id \in DOMAIN base \cup DOMAIN head |->
                     IF id \in DOMAIN head THEN head[id] ELSE base[id]],
         transitions |-> [i \in 1 .. Cardinality(changed) |->
                     LET id == SetToSeq(changed)[i]
                     IN  [id |-> id, start |-> base[id], end |-> head[id]]]]

(* Tracker::consume_by_extend: the views of head become referenced by base. *)
consume_by_extend(base, head) ==
    [id \in DOMAIN base \cup DOMAIN head |-> IF id \in DOMAIN base THEN base[id] ELSE head[id]]

(* lines 110-123: a Barrier::Buffer for every buffer transition *)
buffer_barriers(transitions) ==
    [i \in DOMAIN transitions |->
        [kind   |-> "Buffer",
         states |-> <<map_buffer_state(transitions[i].start),
                      map_buffer_state(transitions[i].end)>>,
         target |-> transitions[i].id]]

(* lines 124-138: a Barrier::Image for every texture transition; tex is the
   texture storage (texture_guard) *)
texture_barriers(transitions, tex) ==
    [i \in DOMAIN transitions |->
        LET aspects == tex[transitions[i].id].aspects
        IN  [kind   |-> "Image",
             states |-> <<map_texture_state(transitions[i].start, aspects),
                          map_texture_state(transitions[i].end, aspects)>>,
             target |-> transitions[i].id]]

(* insert_barriers that chains the buffer barriers a second time *)
insert_barriers_chains_twice(base, head, stitch, tex) ==
    LET bufs == consume_by_replace(base.buffers, head.buffers, stitch)
        texs == consume_by_replace(base.textures, head.textures, stitch)
    IN  [base |-> [buffers  |-> bufs.map,
                   textures |-> texs.map,
                   views    |-> consume_by_extend(base.views, head.views)],
         pipeline_barrier |-> buffer_barriers(bufs.transitions)
                                \o texture_barriers(texs.transitions, tex)
                                \o buffer_barriers(bufs.transitions)]

(* CommandBufferHandle::insert_barriers, lines 102-150: merges head into base
   and issues one pipeline_barrier call with the buffer barriers chained with
   the texture barriers. *)
insert_barriers(base, head, stitch, tex) ==
    LET bufs == consume_by_replace(base.buffers, head.buffers, stitch)
        texs == consume_by_replace(base.textures, head.textures, stitch)
    IN  [base |-> [buffers  |-> bufs.map,
                   textures |-> texs.map,
                   views    |-> consume_by_extend(base.views, head.views)],
         pipeline_barrier |-> buffer_barriers(bufs.transitions)
                                \o texture_barriers(texs.transitions, tex)]

----------------------------------------------------------------------------
(* The resources the registry holds (created by the device, outside this file) *)

TextureTable ==
    [x \in TextureIds |->
        CASE x = "x1" -> [placement |-> [kind |-> "SwapChain", swap_chain_id |-> "s1",
                                         epoch |-> 1, image_index |-> 0],
                          aspects |-> "COLOR"]
          [] x = "x2" -> [placement |-> [kind |-> "Memory"], aspects |-> "COLOR"]
          [] x = "x3" -> [placement |-> [kind |-> "Memory"], aspects |-> "DEPTH_STENCIL"]]

(* v1 and v2 have the same shape on different textures, v3 shares the texture
   of v2 with the format f, v4 has another extent. *)
ViewTable(f) ==
    [v \in TextureViewIds |->
        CASE v = "v1" -> [texture_id |-> "x1", extent |-> Extent1, format |-> "R8g8b8a8Unorm",
                          samples |-> 1, is_owned_by_swap_chain |-> TRUE]
          [] v = "v2" -> [texture_id |-> "x2", extent |-> Extent1, format |-> "R8g8b8a8Unorm",
                          samples |-> 1, is_owned_by_swap_chain |-> FALSE]
          [] v = "v3" -> [texture_id |-> "x2", extent |-> Extent1, format |-> f,
                          samples |-> 1, is_owned_by_swap_chain |-> FALSE]
          [] v = "v4" -> [texture_id |-> "x3", extent |-> Extent2, format |-> "D32FloatS8Uint",
                          samples |-> 1, is_owned_by_swap_chain |-> FALSE]]

----------------------------------------------------------------------------
(* Descriptors: the caller's input *)

RenderPassColorAttachmentDescriptor(V, R, L) ==
    [attachment : V, resolve_target : R, load_op : L, store_op : StoreOp,
     clear_color : Colors]

RenderPassDepthStencilAttachmentDescriptor(V) ==
    [attachment : V, depth_load_op : LoadOp, depth_store_op : StoreOp,
     clear_depth : {"1.0"}, stencil_load_op : LoadOp, stencil_store_op : StoreOp,
     clear_stencil : {0}]

RenderPassDescriptor(V, R, L, D, n) ==
    [color_attachments : SeqsUpTo(RenderPassColorAttachmentDescriptor(V, R, L), n),
     depth_stencil_attachment :
        {None} \cup {Some(d) : d \in RenderPassDepthStencilAttachmentDescriptor(D)}]

----------------------------------------------------------------------------
(* command_encoder_begin_render_pass, in the order the code evaluates it.
   A building state st carries what the closures mutate: the pass extent, the
   encoder's trackers and swap-chain links, and ok = FALSE once a panic has
   unwound the call (what was mutated before the panic stays mutated). *)

(* The swap-chain link pushed for a view that the swap chain owns. *)
push_link(st, view) ==
    IF ~view.is_owned_by_swap_chain THEN st
    ELSE LET placement == textures[view.texture_id].placement
         IN  IF placement.kind # "SwapChain"
             THEN [st EXCEPT !.ok = FALSE]                      \* unreachable!()
             ELSE [st EXCEPT !.swap_chain_links =
                      Append(@, [swap_chain_id |-> placement.swap_chain_id,
                                 epoch         |-> placement.epoch,
                                 image_index   |-> placement.image_index])]

(* An attachment closure that does not register the view in the tracker *)
attachment_key_skips_view(st, id, ops, stencil_ops, aspects) ==
    LET view == texture_views[id]
    IN  IF ~st.ok THEN st
        ELSE IF st.extent # None /\ st.extent # Some(view.extent)
        THEN [st EXCEPT !.ok = FALSE]
        ELSE LET q == query(st.trackers.textures, view.texture_id, TextureUsageEmpty)
                 layout == map_texture_state(q.usage, aspects)[2]
             IN  [st EXCEPT
                    !.extent = Some(view.extent),
                    !.trackers.textures = q.map,
                    !.keys = Append(@, [format      |-> map_texture_format(view.format),
                                        samples     |-> view.samples,
                                        ops         |-> ops,
                                        stencil_ops |-> stencil_ops,
                                        layouts     |-> <<layout, layout>>])]

(* An attachment closure that also records the attachment usage of the
   texture in the tracker *)
attachment_key_records_usage(st, id, ops, stencil_ops, aspects) ==
    LET view == texture_views[id]
    IN  IF ~st.ok THEN st
        ELSE IF st.extent # None /\ st.extent # Some(view.extent)
        THEN [st EXCEPT !.ok = FALSE]
        ELSE LET q == query(st.trackers.textures, view.texture_id, TextureUsageEmpty)
                 layout == map_texture_state(q.usage, aspects)[2]
             IN  [st EXCEPT
                    !.extent = Some(view.extent),
                    !.trackers.views = query(@, id, "DummyUsage").map,
                    !.trackers.textures = Put(q.map, view.texture_id, "OUTPUT_ATTACHMENT"),
                    !.keys = Append(@, [format      |-> map_texture_format(view.format),
                                        samples     |-> view.samples,
                                        ops         |-> ops,
                                        stencil_ops |-> stencil_ops,
                                        layouts     |-> <<layout, layout>>])]

(* The body shared by the three attachment closures: the extent check, the
   two tracker queries and the hal::pass::Attachment that results. *)
attachment_key(st, id, ops, stencil_ops, aspects) ==
    LET view == texture_views[id]
    IN  IF ~st.ok THEN st
        ELSE IF st.extent # None /\ st.extent # Some(view.extent)
        THEN [st EXCEPT !.ok = FALSE]                           \* assert_eq!(ex, view.extent)
        ELSE LET q == query(st.trackers.textures, view.texture_id, TextureUsageEmpty)
                 layout == map_texture_state(q.usage, aspects)[2]
             IN  [st EXCEPT
                    !.extent = Some(view.extent),
                    !.trackers.views = query(@, id, "DummyUsage").map,
                    !.trackers.textures = q.map,
                    !.keys = Append(@, [format      |-> map_texture_format(view.format),
                                        samples     |-> view.samples,
                                        ops         |-> ops,
                                        stencil_ops |-> stencil_ops,
                                        layouts     |-> <<layout, layout>>])]

(* A depth-stencil closure that derives the key without registering the
   view and its texture in the trackers *)
depth_stencil_key_without_tracking(st, at) ==
    [attachment_key(st, at.attachment,
                    map_load_store_ops(at.depth_load_op, at.depth_store_op),
                    map_load_store_ops(at.stencil_load_op, at.stencil_store_op),
                    "DEPTH_STENCIL")
        EXCEPT !.trackers = st.trackers]

(* lines 195-221: the depth-stencil closure (no swap-chain link is taken) *)
depth_stencil_key(st, at) ==
    attachment_key(st, at.attachment,
                   map_load_store_ops(at.depth_load_op, at.depth_store_op),
                   map_load_store_ops(at.stencil_load_op, at.stencil_store_op),
                   "DEPTH_STENCIL")

RECURSIVE color_keys(_, _, _)
(* lines 223-263: the color closure over color_attachments[i ..] *)
color_keys(st, ats, i) ==
    IF i > Len(ats) \/ ~st.ok THEN st
    ELSE color_keys(
            attachment_key(push_link(st, texture_views[ats[i].attachment]),
                           ats[i].attachment,
                           map_load_store_ops(ats[i].load_op, ats[i].store_op),
                           DONT_CARE, "COLOR"),
            ats, i + 1)

RECURSIVE resolve_keys(_, _, _)
(* lines 267-307: the resolve closure over color_attachments[i ..] *)
resolve_keys(st, ats, i) ==
    IF i > Len(ats) \/ ~st.ok THEN st
    ELSE IF ats[i].resolve_target = NULL
    THEN [st EXCEPT !.ok = FALSE]                               \* as_ref().unwrap()
    ELSE resolve_keys(
            attachment_key(push_link(st, texture_views[ats[i].resolve_target]),
                           ats[i].resolve_target,
                           map_load_store_ops(ats[i].load_op, ats[i].store_op),
                           DONT_CARE, "COLOR"),
            ats, i + 1)

(* lines 185-317: rp_key and everything its construction mutates.  The
   depth-stencil attachment is processed first, then the colors, then
   color_attachments[0] is indexed, then the resolves. *)
build_rp_key(cmb, desc) ==
    LET ats == desc.color_attachments
        ds  == desc.depth_stencil_attachment
        st0 == [ok |-> TRUE, extent |-> None, trackers |-> cmb.trackers,
                swap_chain_links |-> cmb.swap_chain_links, keys |-> <<>>]
        st1 == IF ds = None THEN st0 ELSE depth_stencil_key(st0, ds[1])
        st2 == color_keys([st1 EXCEPT !.keys = <<>>], ats, 1)
        st3 == IF ~st2.ok THEN st2
               ELSE IF Len(ats) = 0 THEN [st2 EXCEPT !.ok = FALSE]   \* color_attachments[0]
               ELSE IF ats[1].resolve_target = NULL THEN st2
               ELSE resolve_keys([st2 EXCEPT !.keys = <<>>], ats, 1)
    IN  [ok               |-> st3.ok,
         extent           |-> st3.extent,
         trackers         |-> st3.trackers,
         swap_chain_links |-> st3.swap_chain_links,
         rp_key |-> IF ~st3.ok THEN NULL
                    ELSE [colors        |-> st2.keys,
                          depth_stencil |-> IF ds = None THEN None ELSE Some(st1.keys[1]),
                          resolves      |-> IF ats[1].resolve_target = NULL THEN None
                                            ELSE Some(st3.keys)]]

(* RenderPassKey::all: colors, then the depth-stencil slot, then resolves *)
all_attachments(key) ==
    key.colors
        \o (IF key.depth_stencil = None THEN <<>> ELSE <<key.depth_stencil[1]>>)
        \o (IF key.resolves = None THEN <<>> ELSE key.resolves[1])

RECURSIVE push_resolve_ids(_, _, _)
(* lines 332-334: for i in 0..n { ids.push((ids.len() + i, ColorAttachmentOptimal)) } *)
push_resolve_ids(ids, i, n) ==
    IF i >= n THEN ids
    ELSE push_resolve_ids(Append(ids, <<Len(ids) + i, "ColorAttachmentOptimal">>), i + 1, n)

(* lines 323-346: the subpass description of a render pass being created *)
subpass_desc(desc) ==
    LET ats == desc.color_attachments
        n   == Len(ats)
        ids0 == [i \in 1 .. n |-> <<i - 1, "ColorAttachmentOptimal">>]
        depth_id == Len(ids0)
        ids1 == IF desc.depth_stencil_attachment # None
                THEN Append(ids0, <<Len(ids0), "DepthStencilAttachmentOptimal">>)
                ELSE ids0
        resolve_start == Len(ids1)
        ids2 == push_resolve_ids(ids1, 0, n)
    IN  [colors        |-> SubSeq(ids2, 1, depth_id),
         depth_stencil |-> IF desc.depth_stencil_attachment # None
                           THEN Some(ids2[depth_id + 1]) ELSE None,
         inputs        |-> <<>>,
         resolves      |-> IF ats[1].resolve_target # NULL
                           THEN SubSeq(ids2, resolve_start + 1, Len(ids2)) ELSE <<>>,
         preserves     |-> <<>>]

(* What the native backend answers to a creation request. *)
BackendOutcome == {"Ok", "RenderPassError", "FramebufferError"}

(* An entry that is created and inserted without looking the key up *)
render_pass_entry_always_creates(cache, native, rp_key, desc, backend) ==
    LET pass == Cardinality(DOMAIN native) + 1
    IN  [ok |-> TRUE,
         cache |-> Put(cache, rp_key, pass),
         native |-> Put(native, pass, [attachments |-> all_attachments(rp_key),
                                       subpasses   |-> <<subpass_desc(desc)>>]),
         render_pass |-> pass,
         hit |-> FALSE]

(* lines 319-358: device.render_passes.entry(rp_key): the cached render pass,
   or a newly created and inserted one; unwrap() panics on a backend error. *)
render_pass_entry(cache, native, rp_key, desc, backend) ==
    IF rp_key \in DOMAIN cache
    THEN [ok |-> TRUE, cache |-> cache, native |-> native, render_pass |-> cache[rp_key],
          hit |-> TRUE]
    ELSE IF backend = "RenderPassError"
    THEN [ok |-> FALSE, cache |-> cache, native |-> native, render_pass |-> 0,
          hit |-> FALSE]
    ELSE LET pass == Cardinality(DOMAIN native) + 1
         IN  [ok |-> TRUE,
              cache |-> Put(cache, rp_key, pass),
              native |-> Put(native, pass, [attachments |-> all_attachments(rp_key),
                                            subpasses   |-> <<subpass_desc(desc)>>]),
              render_pass |-> pass,
              hit |-> FALSE]

(* A FramebufferKey that leaves the depth-stencil view out *)
framebuffer_key_without_depth_stencil(desc) ==
    LET ats == desc.color_attachments
    IN  [colors        |-> [i \in 1 .. Len(ats) |-> ats[i].attachment],
         depth_stencil |-> NULL,
         resolves      |-> IF ats[1].resolve_target # NULL
                           THEN Some([i \in 1 .. Len(ats) |-> ats[i].resolve_target])
                           ELSE None]

(* lines 361-374: the FramebufferKey of a descriptor *)
framebuffer_key(desc) ==
    LET ats == desc.color_attachments
    IN  [colors        |-> [i \in 1 .. Len(ats) |-> ats[i].attachment],
         depth_stencil |-> IF desc.depth_stencil_attachment = None THEN NULL
                           ELSE desc.depth_stencil_attachment[1].attachment,
         resolves      |-> IF ats[1].resolve_target # NULL
                           THEN Some([i \in 1 .. Len(ats) |-> ats[i].resolve_target])
                           ELSE None]

(* FramebufferKey::all: colors, then the depth-stencil slot, then resolves *)
all_views(key) ==
    key.colors
        \o (IF key.depth_stencil = NULL THEN <<>> ELSE <<key.depth_stencil>>)
        \o (IF key.resolves = None THEN <<>> ELSE key.resolves[1])

(* lines 375-390: device.framebuffers.entry(fb_key): the cached framebuffer,
   or one created against render_pass and inserted. *)
framebuffer_entry(cache, native, fb_key, render_pass, extent, backend) ==
    IF fb_key \in DOMAIN cache
    THEN [ok |-> TRUE, cache |-> cache, native |-> native, framebuffer |-> cache[fb_key],
          hit |-> TRUE]
    ELSE IF backend = "FramebufferError"
    THEN [ok |-> FALSE, cache |-> cache, native |-> native, framebuffer |-> 0,
          hit |-> FALSE]
    ELSE LET fb == Cardinality(DOMAIN native) + 1
         IN  [ok |-> TRUE,
              cache |-> Put(cache, fb_key, fb),
              native |-> Put(native, fb, [render_pass |-> render_pass,
                                          attachments |-> all_views(fb_key),
                                          extent      |-> extent]),
              framebuffer |-> fb,
              hit |-> FALSE]

(* A clear color that is always the floating-point variant *)
clear_color_value_always_float(channel, color) ==
    [variant |-> "Float", value |-> map_color_f32(color)]

(* lines 411-427: the clear color variant for a channel type *)
clear_color_value(channel, color) ==
    CASE channel \in {"Unorm", "Snorm", "Ufloat", "Sfloat", "Uscaled", "Sscaled", "Srgb"} ->
            [variant |-> "Float", value |-> map_color_f32(color)]
      [] channel = "Sint" -> [variant |-> "Int", value |-> map_color_i32(color)]
      [] channel = "Uint" -> [variant |-> "Uint", value |-> map_color_u32(color)]

(* lines 402-433 and again 445-473: the flat_map over the color attachments
   zipped with rp_key.colors *)
color_clear_values(ats, keys) ==
    FlatMap([i \in 1 .. (IF Len(ats) < Len(keys) THEN Len(ats) ELSE Len(keys)) |->
                IF ats[i].load_op = "Load" THEN <<>>
                ELSE <<[kind  |-> "Color",
                        color |-> clear_color_value(base_format(keys[i].format)[2],
                                                    ats[i].clear_color)]>>], 1)

(* lines 434-444: the depth-stencil clear value *)
depth_stencil_clear_values(ds) ==
    IF ds = None THEN <<>>
    ELSE IF ds[1].depth_load_op = "Load" /\ ds[1].stencil_load_op = "Load" THEN <<>>
    ELSE <<[kind |-> "DepthStencil", depth |-> ds[1].clear_depth,
            stencil |-> ds[1].clear_stencil]>>

(* lines 402-473: the clear values handed to the native begin_render_pass *)
clear_values(desc, rp_key) ==
    color_clear_values(desc.color_attachments, rp_key.colors)
        \o depth_stencil_clear_values(desc.depth_stencil_attachment)
        \o color_clear_values(desc.color_attachments, rp_key.colors)

(* lines 493-509: RenderPassContext *)
render_pass_context(desc) ==
    LET ats == desc.color_attachments
    IN  [colors        |-> [i \in 1 .. Len(ats) |-> texture_views[ats[i].attachment].format],
         depth_stencil |-> IF desc.depth_stencil_attachment = None THEN NULL
                           ELSE texture_views[desc.depth_stencil_attachment[1].attachment].format,
         resolves      |-> IF ats[1].resolve_target # NULL
                           THEN Some([i \in 1 .. Len(ats) |->
                                        texture_views[ats[i].resolve_target].format])
                           ELSE None]

----------------------------------------------------------------------------
(* Locks.  HUB.devices, HUB.command_buffers, HUB.texture_views and
   HUB.textures are reader-writer locks; the epoch of a swap-chain link and
   the two caches of a device are mutexes.  A guard is released when it is
   dropped: at the end of its statement for a temporary, at the return of the
   call (or when a panic unwinds it) for a local. *)

(* The locks in the order begin_render_pass takes them (lines 172-176, 227,
   230, 319, 360) *)
LockOrder ==
    <<"devices", "command_buffers", "texture_views", "textures", "epoch",
      "render_passes", "framebuffers">>

FreeLock == [writer |-> NULL, readers |-> {}]

(* A lock that is granted whoever holds it *)
can_lock_always(lk, mode) == TRUE

(* read() is granted while no writer holds the lock; write() and a mutex's
   lock() are granted while nobody holds it *)
can_lock(lk, mode) ==
    IF mode = "read" THEN lk.writer = NULL
    ELSE lk.writer = NULL /\ lk.readers = {}

acquire(lks, name, t, mode) ==
    [lks EXCEPT ![name] = IF mode = "read"
                          THEN [@ EXCEPT !.readers = @ \cup {t}]
                          ELSE [@ EXCEPT !.writer = t]]

(* The guards of thread t on the locks in names are dropped *)
release(lks, names, t) ==
    [n \in DOMAIN lks |->
        IF n \in names
        THEN [writer  |-> IF lks[n].writer = t THEN NULL ELSE lks[n].writer,
              readers |-> lks[n].readers \ {t}]
        ELSE lks[n]]

(* A return that leaves the guard of HUB.command_buffers behind *)
release_all_keeps_command_buffers(lks, t) ==
    release(lks, Range(LockOrder) \ {"command_buffers"}, t)

(* The return of a call, or a panic unwinding it: every guard the thread
   holds is dropped *)
release_all(lks, t) == release(lks, Range(LockOrder), t)

(* The frame of a thread that executes no call; call is the record of the
   call it completed last *)
IdleFrame(call) == [pc |-> "idle", call |-> call]

----------------------------------------------------------------------------
(* Initial state: two open encoders of one device, each created by its own
   thread with one native command buffer; empty caches. *)

InitialCommandBuffer(e) ==
    [raw               |-> IF e = "e1" THEN <<1>> ELSE <<2>>,
     is_recording      |-> TRUE,
     recorded_thread_id |-> IF e = "e1" THEN "t1" ELSE "t2",
     device_id         |-> "d1",
     life_guard        |-> [ref_count |-> 1],
     trackers          |-> EmptyTrackerSet,
     swap_chain_links  |-> <<>>]

NoCall == [op |-> "none", thread |-> NULL, encoder |-> NULL, result |-> "ok", ret |-> None]

InitWith(f) ==
    /\ command_buffers = [e \in CommandEncoderIds |-> InitialCommandBuffer(e)]
    /\ devices = [d \in DeviceIds |-> [render_passes |-> EmptyMap, framebuffers |-> EmptyMap]]
    /\ texture_views = ViewTable(f)
    /\ textures = TextureTable
    /\ hal = [command_buffers |-> Cardinality(CommandEncoderIds),
              render_passes   |-> EmptyMap,
              framebuffers    |-> EmptyMap]
    /\ passes = {}
    /\ last = NoCall
    /\ nops = 0
    /\ frames = [t \in ThreadIds |-> IdleFrame(None)]
    /\ locks = [n \in Range(LockOrder) |-> FreeLock]

Init == InitWith("R8g8b8a8Uint")

----------------------------------------------------------------------------
(* Finish that also drops the encoder's native command buffers *)
Finish_drops_raw(t, e) ==
    /\ nops < MaxOps
    /\ command_buffers' = [command_buffers EXCEPT ![e].is_recording = FALSE, ![e].raw = <<>>]
    /\ last' = [op |-> "finish", thread |-> t, encoder |-> e, result |-> "ok", ret |-> Some(e)]
    /\ nops' = nops + 1
    /\ UNCHANGED <<devices, texture_views, textures, hal, passes, frames, locks>>

(* wgpu_command_encoder_finish, lines 160-166 *)
Finish(t, e) ==
    /\ nops < MaxOps
    /\ command_buffers' = [command_buffers EXCEPT ![e].is_recording = FALSE]
    /\ last' = [op |-> "finish", thread |-> t, encoder |-> e, result |-> "ok", ret |-> Some(e)]
    /\ nops' = nops + 1
    /\ UNCHANGED <<devices, texture_views, textures, hal, passes, frames, locks>>

(* A begin_compute_pass that takes the first native command buffer of the
   sequence instead of the last *)
BeginComputePass_pops_first(t, e) ==
    LET cmb == command_buffers[e]
    IN  /\ nops < MaxOps
        /\ nops' = nops + 1
        /\ UNCHANGED <<devices, texture_views, textures, hal, frames, locks>>
        /\ IF Len(cmb.raw) = 0
           THEN /\ last' = [op |-> "begin_compute_pass", thread |-> t, encoder |-> e,
                            result |-> "panic", ret |-> None]
                /\ UNCHANGED <<command_buffers, passes>>
           ELSE LET pass == [kind |-> "compute",
                             raw |-> cmb.raw[1],
                             cmb_id |-> e]
                IN  /\ command_buffers' =
                          [command_buffers EXCEPT
                              ![e].raw = Tail(cmb.raw),
                              ![e].life_guard.ref_count = @ + 1]
                    /\ passes' = passes \cup {pass}
                    /\ last' = [op |-> "begin_compute_pass", thread |-> t, encoder |-> e,
                                result |-> "ok", ret |-> Some(pass)]

(* command_encoder_begin_compute_pass, lines 537-550 *)
BeginComputePass(t, e) ==
    LET cmb == command_buffers[e]
    IN  /\ nops < MaxOps
        /\ nops' = nops + 1
        /\ UNCHANGED <<devices, texture_views, textures, hal, frames, locks>>
        /\ IF Len(cmb.raw) = 0
           THEN /\ last' = [op |-> "begin_compute_pass", thread |-> t, encoder |-> e,
                            result |-> "panic", ret |-> None]       \* pop().unwrap()
                /\ UNCHANGED <<command_buffers, passes>>
           ELSE LET pass == [kind |-> "compute",
                             raw |-> cmb.raw[Len(cmb.raw)],
                             cmb_id |-> e]
                IN  /\ command_buffers' =
                          [command_buffers EXCEPT
                              ![e].raw = SubSeq(cmb.raw, 1, Len(cmb.raw) - 1),
                              ![e].life_guard.ref_count = @ + 1]
                    /\ passes' = passes \cup {pass}
                    /\ last' = [op |-> "begin_compute_pass", thread |-> t, encoder |-> e,
                                result |-> "ok", ret |-> Some(pass)]

(* lines 392-491: the native begin_render_pass, set_scissors and
   set_viewports calls with their arguments; rp and fb are the cache entries
   the call uses *)
native_call(desc, kb, fb_key, rp, fb) ==
    LET ex == kb.extent[1]                                      \* extent.unwrap()
        rect == [x |-> 0, y |-> 0, w |-> ex.width, h |-> ex.height]
    IN  [rp_key |-> kb.rp_key, fb_key |-> fb_key,
         render_pass |-> rp.render_pass,
         framebuffer |-> fb.framebuffer,
         render_pass_hit |-> rp.hit, framebuffer_hit |-> fb.hit,
         extent |-> ex, rect |-> rect,
         clear_values |-> clear_values(desc, kb.rp_key),
         scissors |-> <<rect>>, viewports |-> <<rect>>]

(* lines 493-524: RenderPass::new(current_comb, Stored { .. }, context,
   index_state) *)
render_pass_handle(e, raw, desc) ==
    [kind |-> "render", raw |-> raw, cmb_id |-> e,
     context |-> render_pass_context(desc),
     index_state |-> [bound_buffer_view |-> NULL, format |-> "Uint16"]]

(* lines 319-525: what follows the construction of rp_key: the two cache
   entries, the native begin_render_pass call and the pass that is returned.
   kb is the result of build_rp_key.  A call that panics records its cause:
   a contract violation while the key is built, or the unwrap() of a failed
   create_render_pass or create_framebuffer, with the key being created. *)
begin_pass(e, kb, device, native, desc, backend) ==
    LET rp == render_pass_entry(device.render_passes, native.render_passes, kb.rp_key,
                                desc, backend)
    IN  IF ~kb.ok
        THEN [ok |-> FALSE, device |-> device, render_passes |-> native.render_passes,
              framebuffers |-> native.framebuffers, cause |-> "contract", key |-> None]
        ELSE IF ~rp.ok
        THEN [ok |-> FALSE, device |-> device, render_passes |-> native.render_passes,
              framebuffers |-> native.framebuffers, cause |-> "create_render_pass",
              key |-> Some(kb.rp_key)]
        ELSE
        LET fb_key == framebuffer_key(desc)
            fb == framebuffer_entry(device.framebuffers, native.framebuffers, fb_key,
                                    rp.render_pass, kb.extent[1], backend) \* extent.unwrap()
        IN  IF ~fb.ok
            THEN [ok |-> FALSE,
                  device |-> [device EXCEPT !.render_passes = rp.cache],
                  render_passes |-> rp.native,
                  framebuffers |-> native.framebuffers, cause |-> "create_framebuffer",
                  key |-> Some(fb_key)]
            ELSE [ok |-> TRUE,
                  device |-> [render_passes |-> rp.cache, framebuffers |-> fb.cache],
                  render_passes |-> rp.native,
                  framebuffers |-> fb.native,
                  pass |-> render_pass_handle(e, native.command_buffers + 1, desc),
                  call |-> native_call(desc, kb, fb_key, rp, fb)]

(* command_encoder_begin_render_pass, lines 168-525 *)
BeginRenderPass(t, e, desc, backend) ==
    /\ nops < MaxOps
    /\ \E kb \in {build_rp_key(command_buffers[e], desc)} :
       \E r \in {begin_pass(e, kb, devices[command_buffers[e].device_id], hal, desc,
                             backend)} :
        /\ nops' = nops + 1
        /\ UNCHANGED <<texture_views, textures, frames, locks>>
        /\ command_buffers' =
              [command_buffers EXCEPT
                  ![e].trackers = kb.trackers,
                  ![e].swap_chain_links = kb.swap_chain_links,
                  ![e].life_guard.ref_count = IF r.ok THEN @ + 1 ELSE @]
        /\ devices' = [devices EXCEPT ![command_buffers[e].device_id] = r.device]
        /\ hal' = [command_buffers |-> hal.command_buffers + 1, \* com_allocator.extend(cmb)
                   render_passes   |-> r.render_passes,
                   framebuffers    |-> r.framebuffers]
        /\ passes' = IF r.ok THEN passes \cup {r.pass} ELSE passes
        /\ last' = IF r.ok
                   THEN [op |-> "begin_render_pass", thread |-> t, encoder |-> e,
                         result |-> "ok", ret |-> Some(r.pass), desc |-> desc,
                         call |-> r.call]
                   ELSE [op |-> "begin_render_pass", thread |-> t, encoder |-> e,
                         result |-> "panic", ret |-> None, desc |-> desc,
                         cause |-> r.cause, key |-> r.key]

(* CommandBufferHandle::insert_barriers applied to the trackers of encoder e,
   lines 102-150 *)
InsertBarriers(e, head, stitch) ==
    LET base == command_buffers[e].trackers
        r == insert_barriers(base, head, stitch, textures)
    IN  /\ nops < MaxOps
        /\ nops' = nops + 1
        /\ command_buffers' = [command_buffers EXCEPT ![e].trackers = r.base]
        /\ last' = [op |-> "insert_barriers", thread |-> NULL, encoder |-> e,
                    result |-> "ok", ret |-> None, base |-> base, head |-> head,
                    stitch |-> stitch, pipeline_barrier |-> r.pipeline_barrier]
        /\ UNCHANGED <<devices, texture_views, textures, hal, passes, frames, locks>>

(* The end of a pass (wgpu_render_pass_end_pass, wgpu_compute_pass_end_pass):
   the handle is released, its native command buffer returns to the end of
   the encoder's sequence and its share of the reference count is dropped. *)
EndPass(pass) ==
    /\ nops < MaxOps
    /\ pass \in passes
    /\ nops' = nops + 1
    /\ passes' = passes \ {pass}
    /\ command_buffers' =
          [command_buffers EXCEPT
              ![pass.cmb_id].raw = Append(@, pass.raw),
              ![pass.cmb_id].life_guard.ref_count = @ - 1]
    /\ last' = [op |-> "end_pass", thread |-> NULL, encoder |-> pass.cmb_id,
                result |-> "ok", ret |-> Some(pass.cmb_id)]
    /\ UNCHANGED <<devices, texture_views, textures, hal, frames, locks>>

----------------------------------------------------------------------------
(* The entry points executed lock by lock.  A thread's frame holds the call
   it executes (op, encoder, desc), its position pc, its locals (raw:
   current_comb, kb: rp_key with extent, rp and fb: the cache entries in use)
   and whether another call was in flight during this one. *)

InFlight == {u \in ThreadIds : frames[u].pc # "idle"}

(* A thread enters an entry point *)
Call(t, op, e, desc) ==
    /\ frames[t].pc = "idle"
    /\ nops + Cardinality(InFlight) < MaxCalls
    /\ frames' = [u \in ThreadIds |->
          IF u = t
          THEN [pc |-> IF op = "begin_render_pass" THEN "lock_devices" ELSE op,
                op |-> op, encoder |-> e, desc |-> desc,
                raw |-> 0, links_left |-> 0, kb |-> None, rp |-> None, fb |-> None,
                concurrent |-> InFlight # {}]
          ELSE IF u \in InFlight THEN [frames[u] EXCEPT !.concurrent = TRUE]
          ELSE frames[u]]
    /\ UNCHANGED <<command_buffers, devices, texture_views, textures, hal, passes, last,
                   nops, locks>>

(* The call of thread t ends (it returns, or a panic unwinds it) with the
   given record: its guards are dropped *)
Complete(t, record) ==
    LET done == [record EXCEPT !.concurrent = frames[t].concurrent]
    IN  /\ last' = done
        /\ nops' = nops + 1
        /\ frames' = [frames EXCEPT ![t] = IdleFrame(Some(done))]

(* The record of a begin_render_pass call that panicked *)
Panicked(t, cause, key) ==
    [op |-> "begin_render_pass", thread |-> t, encoder |-> frames[t].encoder,
     result |-> "panic", ret |-> None, desc |-> frames[t].desc[1],
     cause |-> cause, key |-> key, concurrent |-> FALSE]

(* wgpu_command_encoder_finish, line 164: the write guard is a temporary of
   the statement *)
FinishLocked(t) ==
    LET e == frames[t].encoder
    IN  /\ frames[t].pc = "finish"
        /\ can_lock(locks["command_buffers"], "write")
        /\ locks' = release_all(acquire(locks, "command_buffers", t, "write"), t)
        /\ command_buffers' = [command_buffers EXCEPT ![e].is_recording = FALSE]
        /\ Complete(t, [op |-> "finish", thread |-> t, encoder |-> e, result |-> "ok",
                        ret |-> Some(e), concurrent |-> FALSE])
        /\ UNCHANGED <<devices, texture_views, textures, hal, passes>>

(* command_encoder_begin_compute_pass, lines 540-549: cmb_guard is held for
   the whole body *)
ComputePassLocked(t) ==
    LET e   == frames[t].encoder
        cmb == command_buffers[e]
        pass == [kind |-> "compute", raw |-> cmb.raw[Len(cmb.raw)], cmb_id |-> e]
    IN  /\ frames[t].pc = "begin_compute_pass"
        /\ can_lock(locks["command_buffers"], "write")
        /\ locks' = release_all(acquire(locks, "command_buffers", t, "write"), t)
        /\ UNCHANGED <<devices, texture_views, textures, hal>>
        /\ IF Len(cmb.raw) = 0
           THEN /\ Complete(t, [op |-> "begin_compute_pass", thread |-> t, encoder |-> e,
                                result |-> "panic", ret |-> None, concurrent |-> FALSE])
                /\ UNCHANGED <<command_buffers, passes>>
           ELSE /\ command_buffers' =
                      [command_buffers EXCEPT
                          ![e].raw = SubSeq(cmb.raw, 1, Len(cmb.raw) - 1),
                          ![e].life_guard.ref_count = @ + 1]
                /\ passes' = passes \cup {pass}
                /\ Complete(t, [op |-> "begin_compute_pass", thread |-> t, encoder |-> e,
                                result |-> "ok", ret |-> Some(pass), concurrent |-> FALSE])

(* A thread that takes a lock waits while the lock is not granted. *)

(* line 172: let device_guard = HUB.devices.read() *)
LockDevices(t) ==
    /\ frames[t].pc = "lock_devices"
    /\ can_lock(locks["devices"], "read")
    /\ locks' = acquire(locks, "devices", t, "read")
    /\ frames' = [frames EXCEPT ![t].pc = "lock_command_buffers"]
    /\ UNCHANGED <<command_buffers, devices, texture_views, textures, hal, passes, last,
                   nops>>

(* line 173: let mut cmb_guard = HUB.command_buffers.write() *)
LockCommandBuffers(t) ==
    /\ frames[t].pc = "lock_command_buffers"
    /\ can_lock(locks["command_buffers"], "write")
    /\ locks' = acquire(locks, "command_buffers", t, "write")
    /\ frames' = [frames EXCEPT ![t].pc = "lock_texture_views"]
    /\ UNCHANGED <<command_buffers, devices, texture_views, textures, hal, passes, last,
                   nops>>

(* The swap-chain links a call takes: one for every attachment processed
   whose view the swap chain owns (lines 226-236, 271-281) *)
links_taken(cmb, desc) ==
    Len(build_rp_key(cmb, desc).swap_chain_links) - Len(cmb.swap_chain_links)

(* lines 176-184: let view_guard = HUB.texture_views.read(), then
   com_allocator.extend(cmb) and current_comb.begin(..) *)
LockTextureViews(t) ==
    LET n == links_taken(command_buffers[frames[t].encoder], frames[t].desc[1])
    IN  /\ frames[t].pc = "lock_texture_views"
        /\ can_lock(locks["texture_views"], "read")
        /\ locks' = acquire(locks, "texture_views", t, "read")
        /\ hal' = [hal EXCEPT !.command_buffers = @ + 1]
        /\ frames' = [frames EXCEPT ![t].pc = IF n > 0 THEN "lock_textures" ELSE "rp_key",
                                    ![t].links_left = n,
                                    ![t].raw = hal.command_buffers + 1]
        /\ UNCHANGED <<command_buffers, devices, texture_views, textures, passes, last,
                       nops>>

(* lines 227, 272: HUB.textures.read(), a temporary of the match *)
LockTextures(t) ==
    /\ frames[t].pc = "lock_textures"
    /\ can_lock(locks["textures"], "read")
    /\ locks' = acquire(locks, "textures", t, "read")
    /\ frames' = [frames EXCEPT ![t].pc = "lock_epoch"]
    /\ UNCHANGED <<command_buffers, devices, texture_views, textures, hal, passes, last,
                   nops>>

(* lines 230, 275: link.epoch.lock(), a temporary inside the match *)
LockEpoch(t) ==
    /\ frames[t].pc = "lock_epoch"
    /\ can_lock(locks["epoch"], "lock")
    /\ locks' = acquire(locks, "epoch", t, "lock")
    /\ frames' = [frames EXCEPT ![t].pc = "take_link"]
    /\ UNCHANGED <<command_buffers, devices, texture_views, textures, hal, passes, last,
                   nops>>

(* lines 234-235, 279-280: the end of the match drops both temporaries *)
TakeLink(t) ==
    /\ frames[t].pc = "take_link"
    /\ locks' = release(locks, {"textures", "epoch"}, t)
    /\ frames' = [frames EXCEPT
                    ![t].links_left = @ - 1,
                    ![t].pc = IF frames[t].links_left > 1 THEN "lock_textures" ELSE "rp_key"]
    /\ UNCHANGED <<command_buffers, devices, texture_views, textures, hal, passes, last,
                   nops>>

(* lines 185-317: rp_key is complete, the tracker and the links of the
   encoder are updated; a contract violation panics *)
BuildKey(t) ==
    LET e  == frames[t].encoder
        kb == build_rp_key(command_buffers[e], frames[t].desc[1])
    IN  /\ frames[t].pc = "rp_key"
        /\ command_buffers' = [command_buffers EXCEPT
                                  ![e].trackers = kb.trackers,
                                  ![e].swap_chain_links = kb.swap_chain_links]
        /\ UNCHANGED <<devices, texture_views, textures, hal, passes>>
        /\ IF kb.ok
           THEN /\ frames' = [frames EXCEPT ![t].pc = "lock_render_passes",
                                           ![t].kb = Some(kb)]
                /\ UNCHANGED <<last, nops, locks>>
           ELSE /\ Complete(t, Panicked(t, "contract", None))
                /\ locks' = release_all(locks, t)

(* line 319: let mut render_pass_cache = device.render_passes.lock() *)
LockRenderPasses(t) ==
    /\ frames[t].pc = "lock_render_passes"
    /\ can_lock(locks["render_passes"], "lock")
    /\ locks' = acquire(locks, "render_passes", t, "lock")
    /\ frames' = [frames EXCEPT ![t].pc = "render_pass_entry"]
    /\ UNCHANGED <<command_buffers, devices, texture_views, textures, hal, passes, last,
                   nops>>

(* lines 320-321: render_pass_cache.entry(rp_key.clone()), Occupied or
   Vacant *)
RenderPassLookup(t) ==
    LET f == frames[t]
        d == command_buffers[f.encoder].device_id
        r == render_pass_entry(devices[d].render_passes, hal.render_passes,
                               f.kb[1].rp_key, f.desc[1], "Ok")
    IN  /\ f.pc = "render_pass_entry"
        /\ frames' = IF r.hit
                     THEN [frames EXCEPT ![t].pc = "lock_framebuffers",
                                         ![t].rp = Some([render_pass |-> r.render_pass,
                                                         hit |-> TRUE])]
                     ELSE [frames EXCEPT ![t].pc = "create_render_pass"]
        /\ UNCHANGED <<command_buffers, devices, texture_views, textures, hal, passes,
                       last, nops, locks>>

(* lines 322-357: the Vacant arm: the render pass is created and inserted;
   unwrap() panics when the backend answers with an error *)
CreateRenderPass(t) ==
    \E backend \in BackendOutcome :
    LET f == frames[t]
        d == command_buffers[f.encoder].device_id
        key == f.kb[1].rp_key
        cache == devices[d].render_passes
        vacant == [k \in DOMAIN cache \ {key} |-> cache[k]]
        r == render_pass_entry(vacant, hal.render_passes, key, f.desc[1], backend)
    IN  /\ f.pc = "create_render_pass"
        /\ UNCHANGED <<command_buffers, texture_views, textures, passes>>
        /\ IF r.ok
           THEN /\ devices' = [devices EXCEPT ![d].render_passes = Put(cache, key, r.render_pass)]
                /\ hal' = [hal EXCEPT !.render_passes = r.native]
                /\ frames' = [frames EXCEPT ![t].pc = "lock_framebuffers",
                                            ![t].rp = Some([render_pass |-> r.render_pass,
                                                            hit |-> FALSE])]
                /\ UNCHANGED <<last, nops, locks>>
           ELSE /\ Complete(t, Panicked(t, "create_render_pass", Some(key)))
                /\ locks' = release_all(locks, t)
                /\ UNCHANGED <<devices, hal>>

(* line 360: let mut framebuffer_cache = device.framebuffers.lock() *)
LockFramebuffers(t) ==
    /\ frames[t].pc = "lock_framebuffers"
    /\ can_lock(locks["framebuffers"], "lock")
    /\ locks' = acquire(locks, "framebuffers", t, "lock")
    /\ frames' = [frames EXCEPT ![t].pc = "framebuffer_entry"]
    /\ UNCHANGED <<command_buffers, devices, texture_views, textures, hal, passes, last,
                   nops>>

(* lines 361-376: fb_key and framebuffer_cache.entry(fb_key), Occupied or
   Vacant *)
FramebufferLookup(t) ==
    LET f == frames[t]
        d == command_buffers[f.encoder].device_id
        r == framebuffer_entry(devices[d].framebuffers, hal.framebuffers,
                               framebuffer_key(f.desc[1]), f.rp[1].render_pass,
                               f.kb[1].extent[1], "Ok")
    IN  /\ f.pc = "framebuffer_entry"
        /\ frames' = IF r.hit
                     THEN [frames EXCEPT ![t].pc = "return",
                                         ![t].fb = Some([framebuffer |-> r.framebuffer,
                                                         hit |-> TRUE])]
                     ELSE [frames EXCEPT ![t].pc = "create_framebuffer"]
        /\ UNCHANGED <<command_buffers, devices, texture_views, textures, hal, passes,
                       last, nops, locks>>

(* lines 377-389: the Vacant arm: the framebuffer is created against
   render_pass and inserted; unwrap() panics when the backend answers with an
   error *)
CreateFramebuffer(t) ==
    \E backend \in BackendOutcome :
    LET f == frames[t]
        d == command_buffers[f.encoder].device_id
        key == framebuffer_key(f.desc[1])
        cache == devices[d].framebuffers
        vacant == [k \in DOMAIN cache \ {key} |-> cache[k]]
        r == framebuffer_entry(vacant, hal.framebuffers, key, f.rp[1].render_pass,
                               f.kb[1].extent[1], backend)
    IN  /\ f.pc = "create_framebuffer"
        /\ UNCHANGED <<command_buffers, texture_views, textures, passes>>
        /\ IF r.ok
           THEN /\ devices' = [devices EXCEPT ![d].framebuffers = Put(cache, key, r.framebuffer)]
                /\ hal' = [hal EXCEPT !.framebuffers = r.native]
                /\ frames' = [frames EXCEPT ![t].pc = "return",
                                            ![t].fb = Some([framebuffer |-> r.framebuffer,
                                                            hit |-> FALSE])]
                /\ UNCHANGED <<last, nops, locks>>
           ELSE /\ Complete(t, Panicked(t, "create_framebuffer", Some(key)))
                /\ locks' = release_all(locks, t)
                /\ UNCHANGED <<devices, hal>>

(* lines 392-525: the native begin_render_pass call and the returned pass;
   the return drops framebuffer_cache, render_pass_cache, view_guard,
   cmb_guard and device_guard *)
Return(t) ==
    LET f == frames[t]
        e == f.encoder
        desc == f.desc[1]
        pass == render_pass_handle(e, f.raw, desc)
    IN  /\ f.pc = "return"
        /\ command_buffers' = [command_buffers EXCEPT ![e].life_guard.ref_count = @ + 1]
        /\ passes' = passes \cup {pass}
        /\ locks' = release_all(locks, t)
        /\ Complete(t, [op |-> "begin_render_pass", thread |-> t, encoder |-> e,
                        result |-> "ok", ret |-> Some(pass), desc |-> desc,
                        call |-> native_call(desc, f.kb[1], framebuffer_key(desc),
                                             f.rp[1], f.fb[1]),
                        concurrent |-> FALSE])
        /\ UNCHANGED <<devices, texture_views, textures, hal>>

----------------------------------------------------------------------------
(* Input domains *)

PartialMaps(K, V) == UNION {[D -> V] : D \in SUBSET K}

TrackerSets(B, X, U, W) ==
    [buffers : PartialMaps(B, BufferUsage), textures : PartialMaps(X, U),
     views : PartialMaps(W, {"DummyUsage"})]

(* Spec: sequences of calls on two encoders from two threads, with a backend
   that does not fail; at most one color attachment per descriptor keeps the
   sequences enumerable. *)
SpecDescriptors ==
    [color_attachments :
        SeqsUpTo(RenderPassColorAttachmentDescriptor({"v1", "v2"}, {NULL}, LoadOp), 1),
     depth_stencil_attachment :
        {None} \cup {Some(d) : d \in
                        {x \in RenderPassDepthStencilAttachmentDescriptor({"v3"}) :
                            x.depth_load_op = "Clear" /\ x.stencil_load_op = "Clear"}}]

SpecHeads ==
    {h \in TrackerSets({}, {"x1"}, {"OUTPUT_ATTACHMENT"}, {}) : h.textures # EmptyMap}

Next ==
    \/ \E t \in ThreadIds, e \in CommandEncoderIds : Finish(t, e)
    \/ \E t \in ThreadIds, e \in CommandEncoderIds : BeginComputePass(t, e)
    \/ \E t \in ThreadIds, e \in CommandEncoderIds, desc \in SpecDescriptors :
          BeginRenderPass(t, e, desc, "Ok")
    \/ \E e \in CommandEncoderIds, head \in SpecHeads, stitch \in Stitch :
          InsertBarriers(e, head, stitch)

Spec == Init /\ [][Next]_vars

(* SpecPass: one begin_render_pass call with every descriptor of up to
   MaxColors color attachments, for every format of view v3 and every answer
   of the backend. *)
PassDescriptors ==
    RenderPassDescriptor(TextureViewIds, {NULL, "v2"}, LoadOp, {"v3", "v4"}, MaxColors)

InitPass == \E f \in TextureFormat : InitWith(f)

NextPass ==
    /\ nops = 0
    /\ \E desc \in PassDescriptors, backend \in BackendOutcome :
          BeginRenderPass("t1", "e1", desc, backend)

SpecPass == InitPass /\ [][NextPass]_vars

(* SpecBarriers: insert_barriers calls on one encoder's trackers with every
   head over one buffer and two textures. *)
BarrierHeads == TrackerSets(BufferIds, {"x1", "x3"}, TextureUsage, {})

NextBarriers ==
    /\ nops < MaxMerges
    /\ \E head \in BarrierHeads, stitch \in Stitch : InsertBarriers("e1", head, stitch)

SpecBarriers == Init /\ [][NextBarriers]_vars

(* SpecTwo: consecutive begin_render_pass calls on one encoder, with every
   descriptor of up to MaxColors cleared color attachments over two views and
   an optional resolve target. *)
TwoDescriptors == RenderPassDescriptor({"v1", "v2"}, {NULL, "v3"}, {"Clear"}, {}, MaxColors)

NextTwo ==
    /\ nops < MaxCalls
    /\ \E desc \in TwoDescriptors : BeginRenderPass("t1", "e1", desc, "Ok")

SpecTwo == Init /\ [][NextTwo]_vars

(* SpecLife: the life of the encoders: passes are begun and ended and the
   encoders are finished, each call made by the thread that owns the encoder. *)
LifeDescriptors ==
    RenderPassDescriptor({"v1", "v2"}, {NULL}, {"Clear"}, {}, 1)

NextLife ==
    \/ \E e \in CommandEncoderIds : Finish(command_buffers[e].recorded_thread_id, e)
    \/ \E e \in CommandEncoderIds :
          BeginComputePass(command_buffers[e].recorded_thread_id, e)
    \/ \E e \in CommandEncoderIds, desc \in LifeDescriptors :
          BeginRenderPass(command_buffers[e].recorded_thread_id, e, desc, "Ok")
    \/ \E pass \in passes : EndPass(pass)

SpecLife == Init /\ [][NextLife]_vars

(* SpecTrack: begin_render_pass calls on one encoder whose tracker may
   already hold the textures in some usage (merged in by insert_barriers);
   the descriptors bind distinct color views, each with or without the
   resolve target v3, which shares its texture with v2. *)
TrackDescriptors ==
    {d \in RenderPassDescriptor({"v1", "v2"}, {NULL, "v3"}, {"Clear"}, {"v3"}, MaxColors) :
        /\ \A i, j \in DOMAIN d.color_attachments :
              i # j => d.color_attachments[i].attachment # d.color_attachments[j].attachment
        /\ d.depth_stencil_attachment # None =>
              /\ d.depth_stencil_attachment[1].depth_load_op = "Clear"
              /\ d.depth_stencil_attachment[1].stencil_load_op = "Clear"}

TrackHeads ==
    {h \in TrackerSets({}, {"x1", "x2"}, {"SAMPLED", "OUTPUT_ATTACHMENT"}, {}) :
        h.textures # EmptyMap}

NextTrack ==
    /\ nops < MaxCalls
    /\ \/ \E head \in TrackHeads : InsertBarriers("e1", head, "Last")
       \/ \E desc \in TrackDescriptors : BeginRenderPass("t1", "e1", desc, "Ok")

SpecTrack == Init /\ [][NextTrack]_vars

(* SpecLocks: two threads execute the entry points lock by lock, up to
   MaxCalls calls in all, on either encoder; the backend may answer a
   creation with an error. *)
LockDescriptors == RenderPassDescriptor({"v1", "v2"}, {NULL}, {"Clear"}, {}, 1)

(* The next step of the call that thread t executes *)
ThreadStep(t) ==
    \/ FinishLocked(t)
    \/ ComputePassLocked(t)
    \/ LockDevices(t)
    \/ LockCommandBuffers(t)
    \/ LockTextureViews(t)
    \/ LockTextures(t)
    \/ LockEpoch(t)
    \/ TakeLink(t)
    \/ BuildKey(t)
    \/ LockRenderPasses(t)
    \/ RenderPassLookup(t)
    \/ CreateRenderPass(t)
    \/ LockFramebuffers(t)
    \/ FramebufferLookup(t)
    \/ CreateFramebuffer(t)
    \/ Return(t)

NextLocks ==
    \/ \E t \in ThreadIds, e \in CommandEncoderIds :
          Call(t, "finish", e, None)
    \/ \E t \in ThreadIds, e \in CommandEncoderIds :
          Call(t, "begin_compute_pass", e, None)
    \/ \E t \in ThreadIds, e \in CommandEncoderIds, desc \in LockDescriptors :
          Call(t, "begin_render_pass", e, Some(desc))
    \/ \E t \in ThreadIds : ThreadStep(t)

SpecLocks == Init /\ [][NextLocks]_vars

----------------------------------------------------------------------------
(* Properties *)

RecordingOps == {"finish", "begin_render_pass", "begin_compute_pass"}

(* A step that is a call of one of the operations in ops *)
Called(ops) == nops' = nops + 1 /\ last'.op \in ops

(* C1: a recording operation issued from a thread other than the encoder's
   owner is rejected: it returns nothing and leaves the encoder as it was. *)
C1_CrossThreadRejected ==
    [][(/\ Called(RecordingOps)
        /\ last'.thread # command_buffers[last'.encoder].recorded_thread_id)
       => (/\ last'.ret = None
           /\ command_buffers'[last'.encoder] = command_buffers[last'.encoder])]_vars

(* C2: no pass handle is returned by begin_render_pass or begin_compute_pass
   for an encoder whose recording flag is closed. *)
C2_NoPassAfterFinish ==
    (/\ last.op \in {"begin_render_pass", "begin_compute_pass"}
     /\ ~command_buffers[last.encoder].is_recording)
    => last.ret = None

(* C3: finish on an encoder whose recording flag is already closed is
   rejected. *)
C3_SecondFinishRejected ==
    [][(/\ Called({"finish"})
        /\ ~command_buffers[last'.encoder].is_recording)
       => (last'.ret = None /\ last'.result # "ok")]_vars

(* C4: finish on an open encoder closes its recording flag and returns the
   encoder id; the encoder's native buffers, tracker and swap-chain links,
   the device caches and every other encoder stay as they were. *)
C4_FinishClosesEncoder ==
    [][(/\ Called({"finish"})
        /\ command_buffers[last'.encoder].is_recording)
       => LET e == last'.encoder
          IN  /\ ~command_buffers'[e].is_recording
              /\ last'.ret = Some(e)
              /\ command_buffers'[e].raw = command_buffers[e].raw
              /\ command_buffers'[e].trackers = command_buffers[e].trackers
              /\ command_buffers'[e].swap_chain_links = command_buffers[e].swap_chain_links
              /\ devices' = devices
              /\ \A o \in CommandEncoderIds \ {e} : command_buffers'[o] = command_buffers[o]]_vars

(* A finish that closed an encoder on which a render pass had been begun. *)
C4_Witness ==
    /\ nops = 2
    /\ last.op = "finish"
    /\ last.ret = Some(last.encoder)
    /\ ~command_buffers[last.encoder].is_recording
    /\ command_buffers[last.encoder].trackers # EmptyTrackerSet
    /\ command_buffers[last.encoder].swap_chain_links # <<>>
    /\ devices["d1"].render_passes # EmptyMap

(* The barriers of kind k that the last insert_barriers issued for id *)
BarriersFor(k, id) ==
    {i \in DOMAIN last.pipeline_barrier :
        last.pipeline_barrier[i].kind = k /\ last.pipeline_barrier[i].target = id}

(* C5: insert_barriers issues exactly one barrier, carrying (S, T), for every
   buffer and texture whose state S recorded in base differs from its state T
   in head, and no barrier for any other buffer or texture. *)
C5_BarrierIffStateDiffers ==
    last.op = "insert_barriers" =>
        /\ \A x \in TextureIds :
              IF /\ x \in DOMAIN last.base.textures \cap DOMAIN last.head.textures
                 /\ last.base.textures[x] # last.head.textures[x]
              THEN /\ Cardinality(BarriersFor("Image", x)) = 1
                   /\ \A i \in BarriersFor("Image", x) :
                         last.pipeline_barrier[i].states =
                            <<map_texture_state(last.base.textures[x], textures[x].aspects),
                              map_texture_state(last.head.textures[x], textures[x].aspects)>>
              ELSE BarriersFor("Image", x) = {}
        /\ \A b \in BufferIds :
              IF /\ b \in DOMAIN last.base.buffers \cap DOMAIN last.head.buffers
                 /\ last.base.buffers[b] # last.head.buffers[b]
              THEN /\ Cardinality(BarriersFor("Buffer", b)) = 1
                   /\ \A i \in BarriersFor("Buffer", b) :
                         last.pipeline_barrier[i].states =
                            <<map_buffer_state(last.base.buffers[b]),
                              map_buffer_state(last.head.buffers[b])>>
              ELSE BarriersFor("Buffer", b) = {}

(* A merge in which one buffer changes state, one texture changes state and
   another texture is required in the state it already has. *)
C5_Witness ==
    /\ last.op = "insert_barriers"
    /\ \E b \in DOMAIN last.base.buffers \cap DOMAIN last.head.buffers :
          last.base.buffers[b] # last.head.buffers[b]
    /\ \E x, y \in DOMAIN last.base.textures \cap DOMAIN last.head.textures :
          /\ last.base.textures[x] # last.head.textures[x]
          /\ last.base.textures[y] = last.head.textures[y]
    /\ Len(last.pipeline_barrier) = 2

(* A step that is a begin_render_pass call that returned a pass *)
BeganRenderPass == Called({"begin_render_pass"}) /\ last'.result = "ok"

(* C6: the render-pass cache of a device never loses or replaces an entry; a
   native render pass is created only for a key that was not cached, once,
   and becomes that key's entry; every begin_render_pass uses the entry of
   its RenderPassKey.  So calls with equal keys use the same object. *)
C6_RenderPassCachedOnce ==
    [][\A d \in DeviceIds :
          LET old == devices[d].render_passes
              new == devices'[d].render_passes
          IN  /\ \A k \in DOMAIN old : k \in DOMAIN new /\ new[k] = old[k]
              /\ \A k \in DOMAIN new \ DOMAIN old :
                    /\ new[k] \notin DOMAIN hal.render_passes
                    /\ new[k] \in DOMAIN hal'.render_passes
              /\ Cardinality(DOMAIN hal'.render_passes \ DOMAIN hal.render_passes)
                    = Cardinality(DOMAIN new \ DOMAIN old)
              /\ DOMAIN hal.render_passes \subseteq DOMAIN hal'.render_passes
              /\ (BeganRenderPass /\ command_buffers[last'.encoder].device_id = d)
                    => /\ last'.call.rp_key \in DOMAIN new
                       /\ last'.call.render_pass = new[last'.call.rp_key]]_vars

(* A third call that finds its render pass cached, created by an earlier call
   with other attachment views, while another render pass is cached too. *)
C6_Witness ==
    /\ nops = 3
    /\ last.op = "begin_render_pass"
    /\ last.result = "ok"
    /\ last.call.render_pass_hit
    /\ ~last.call.framebuffer_hit
    /\ Cardinality(DOMAIN devices["d1"].render_passes) = 2
    /\ Cardinality(DOMAIN hal.render_passes) = 2

(* The view identifiers of a descriptor: colors, depth-stencil, resolves *)
ViewIdentifiers(desc) ==
    <<[i \in DOMAIN desc.color_attachments |-> desc.color_attachments[i].attachment],
      IF desc.depth_stencil_attachment = None THEN NULL
      ELSE desc.depth_stencil_attachment[1].attachment,
      [i \in DOMAIN desc.color_attachments |-> desc.color_attachments[i].resolve_target]>>

(* C7: two begin_render_pass calls use the same framebuffer only when their
   view identifiers (colors, depth-stencil, resolve targets) are the same. *)
C7_SameFramebufferSameViews ==
    [][(/\ BeganRenderPass
        /\ last.op = "begin_render_pass"
        /\ last.result = "ok"
        /\ last'.call.framebuffer = last.call.framebuffer)
       => ViewIdentifiers(last'.desc) = ViewIdentifiers(last.desc)]_vars

(* The color attachments of desc all declare a resolve target, or none does *)
UniformResolves(desc) ==
    \A i, j \in DOMAIN desc.color_attachments :
        (desc.color_attachments[i].resolve_target = NULL)
            = (desc.color_attachments[j].resolve_target = NULL)

(* Supporting property for C7 (holds under SpecTwo): between calls whose
   descriptors are uniform in their resolve targets, the framebuffer is the
   same exactly when the view identifiers are the same. *)
SameFramebufferIffSameViews_Uniform ==
    [][(/\ BeganRenderPass
        /\ last.op = "begin_render_pass"
        /\ last.result = "ok"
        /\ UniformResolves(last.desc)
        /\ UniformResolves(last'.desc))
       => ((last'.call.framebuffer = last.call.framebuffer)
              <=> (ViewIdentifiers(last'.desc) = ViewIdentifiers(last.desc)))]_vars

(* The views a descriptor names as attachments *)
AttachmentViews(desc) ==
    ({desc.color_attachments[i].attachment : i \in DOMAIN desc.color_attachments}
        \cup {desc.color_attachments[i].resolve_target : i \in DOMAIN desc.color_attachments}
        \cup (IF desc.depth_stencil_attachment = None THEN {}
              ELSE {desc.depth_stencil_attachment[1].attachment}))
        \ {NULL}

(* C8: begin_render_pass returns no pass when two attachments of the
   descriptor (color, depth-stencil or resolve target) differ in extent; when
   it returns one, every attachment has the pass extent. *)
C8_ExtentMismatchRejected ==
    last.op = "begin_render_pass" =>
        /\ (\E v, w \in AttachmentViews(last.desc) :
               texture_views[v].extent # texture_views[w].extent) => last.ret = None
        /\ last.result = "ok" =>
              \A v \in AttachmentViews(last.desc) : texture_views[v].extent = last.call.extent

(* Supporting property for C8 (holds under SpecPass): the extent rule on the
   descriptors that are uniform in their resolve targets. *)
ExtentMismatchRejected_Uniform ==
    (last.op = "begin_render_pass" /\ UniformResolves(last.desc)) =>
        /\ (\E v, w \in AttachmentViews(last.desc) :
               texture_views[v].extent # texture_views[w].extent) => last.ret = None
        /\ last.result = "ok" =>
              \A v \in AttachmentViews(last.desc) : texture_views[v].extent = last.call.extent

(* The clear values of kind k passed to the native begin_render_pass *)
ClearValuesOf(k) == SelectSeq(last.call.clear_values, LAMBDA c : c.kind = k)

(* The variant the channel type of a format selects *)
VariantOf(channel) ==
    IF channel = "Sint" THEN "Int" ELSE IF channel = "Uint" THEN "Uint" ELSE "Float"

(* The variants selected by the color attachments whose load op is Clear *)
ClearedVariants(desc) ==
    FlatMap([i \in DOMAIN desc.color_attachments |->
                IF desc.color_attachments[i].load_op = "Clear"
                THEN <<VariantOf(map_texture_format(
                          texture_views[desc.color_attachments[i].attachment].format).channel)>>
                ELSE <<>>], 1)

(* C9: the clear value of every color attachment with load op Clear has the
   variant its format's channel type selects (Sint: Int, Uint: Uint, every
   other channel type: Float), and no color clear value has another variant. *)
C9_ClearVariantByChannelType ==
    (last.op = "begin_render_pass" /\ last.result = "ok") =>
        LET expected == ClearedVariants(last.desc)
            colors   == ClearValuesOf("Color")
        IN  /\ Len(colors) >= Len(expected)
            /\ \A i \in DOMAIN expected :
                  /\ colors[i].color.variant = expected[i]
                  /\ colors[i].color.value[1] =
                        (CASE expected[i] = "Float" -> "f32"
                           [] expected[i] = "Int" -> "i32"
                           [] expected[i] = "Uint" -> "u32")
            /\ \A j \in DOMAIN colors : colors[j].color.variant \in Range(expected)

(* A pass that clears an integer attachment and a normalized attachment. *)
C9_Witness ==
    /\ last.op = "begin_render_pass"
    /\ last.result = "ok"
    /\ Len(last.desc.color_attachments) = 2
    /\ \E c \in Range(ClearValuesOf("Color")) : c.color.variant \in {"Int", "Uint"}
    /\ \E c \in Range(ClearValuesOf("Color")) : c.color.variant = "Float"

(* C10: the clear values hold one color value per color attachment with load
   op Clear and one depth-stencil value when the depth or the stencil load op
   is Clear, and nothing else. *)
C10_OneClearValuePerClear ==
    (last.op = "begin_render_pass" /\ last.result = "ok") =>
        LET ats == last.desc.color_attachments
            ds  == last.desc.depth_stencil_attachment
        IN  /\ Len(ClearValuesOf("Color"))
                  = Cardinality({i \in DOMAIN ats : ats[i].load_op = "Clear"})
            /\ Len(ClearValuesOf("DepthStencil"))
                  = (IF ds # None /\ (ds[1].depth_load_op = "Clear"
                                        \/ ds[1].stencil_load_op = "Clear")
                     THEN 1 ELSE 0)
            /\ Len(last.call.clear_values)
                  = Len(ClearValuesOf("Color")) + Len(ClearValuesOf("DepthStencil"))

(* The attachment views and the load/store operations of two descriptors are
   the same *)
SameViewsAndOps(d1, d2) ==
    /\ ViewIdentifiers(d1) = ViewIdentifiers(d2)
    /\ Len(d1.color_attachments) = Len(d2.color_attachments)
    /\ \A i \in DOMAIN d1.color_attachments :
          /\ d1.color_attachments[i].load_op = d2.color_attachments[i].load_op
          /\ d1.color_attachments[i].store_op = d2.color_attachments[i].store_op
    /\ (d1.depth_stencil_attachment # None) =>
          LET a == d1.depth_stencil_attachment[1]
              b == d2.depth_stencil_attachment[1]
          IN  /\ a.depth_load_op = b.depth_load_op
              /\ a.depth_store_op = b.depth_store_op
              /\ a.stencil_load_op = b.stencil_load_op
              /\ a.stencil_store_op = b.stencil_store_op

(* C11: a begin_render_pass call that directly follows a successful
   begin_render_pass call on the same encoder with the same attachment views
   and load/store operations returns a pass, finds its render pass and its
   framebuffer cached, uses the objects of the first call and creates no
   native object. *)
C11_RepeatedPassHitsBothCaches ==
    [][(/\ Called({"begin_render_pass"})
        /\ last.op = "begin_render_pass"
        /\ last.result = "ok"
        /\ last'.encoder = last.encoder
        /\ SameViewsAndOps(last'.desc, last.desc))
       => (/\ last'.result = "ok"
           /\ last'.call.render_pass_hit
           /\ last'.call.framebuffer_hit
           /\ last'.call.rp_key = last.call.rp_key
           /\ last'.call.render_pass = last.call.render_pass
           /\ last'.call.framebuffer = last.call.framebuffer
           /\ hal'.render_passes = hal.render_passes
           /\ hal'.framebuffers = hal.framebuffers)]_vars

(* Two begin_render_pass calls on an encoder whose tracker holds the texture
   in the attachment usage (merged in before the first call): one render pass
   and one framebuffer exist and the second call hit both caches with a key
   whose layout comes from that usage. *)
C11_Witness ==
    /\ nops = 3
    /\ last.op = "begin_render_pass"
    /\ last.result = "ok"
    /\ last.call.render_pass_hit
    /\ last.call.framebuffer_hit
    /\ hal.command_buffers = Cardinality(CommandEncoderIds) + 2
    /\ Cardinality(DOMAIN hal.render_passes) = 1
    /\ Cardinality(DOMAIN hal.framebuffers) = 1
    /\ last.call.rp_key.colors[1].layouts = <<"ColorAttachmentOptimal", "ColorAttachmentOptimal">>

(* The last call was a begin_render_pass in which the backend failed to
   create the render pass or the framebuffer of a key that was not cached *)
BackendFailed ==
    /\ last.op = "begin_render_pass"
    /\ last.result # "ok"
    /\ last.cause \in {"create_render_pass", "create_framebuffer"}

(* C12: when the backend fails to create a render pass or a framebuffer on a
   cache miss, begin_render_pass returns the recoverable result CreationFailed
   (it does not abort) and no entry for that key is in the cache. *)
C12_CreationFailureReported ==
    BackendFailed =>
        /\ last.result = "CreationFailed"
        /\ \A d \in DeviceIds :
              /\ last.key[1] \notin DOMAIN devices[d].render_passes
              /\ last.key[1] \notin DOMAIN devices[d].framebuffers

(* C13: begin_render_pass returns no pass for a descriptor whose color
   attachments disagree on having a resolve target, wherever the attachment
   without one is. *)
C13_MixedResolvesRejected ==
    (last.op = "begin_render_pass" /\ ~UniformResolves(last.desc)) =>
        (last.ret = None /\ last.result # "ok")

(* C14: the subpass of every native render pass references color i as index
   i, the depth-stencil attachment as index n, resolve i as index n + d + i;
   the referenced indices are distinct and lower than the number of
   attachments of the render pass. *)
C14_SubpassIndicesContiguous ==
    \A p \in DOMAIN hal.render_passes :
        LET sub   == hal.render_passes[p].subpasses[1]
            total == Len(hal.render_passes[p].attachments)
            n     == Len(sub.colors)
            d     == IF sub.depth_stencil = None THEN 0 ELSE 1
            refs  == [i \in 1 .. n |-> sub.colors[i][1]]
                        \o (IF d = 1 THEN <<sub.depth_stencil[1][1]>> ELSE <<>>)
                        \o [i \in 1 .. Len(sub.resolves) |-> sub.resolves[i][1]]
        IN  /\ \A i \in 1 .. n : sub.colors[i][1] = i - 1
            /\ d = 1 => sub.depth_stencil[1][1] = n
            /\ \A i \in 1 .. Len(sub.resolves) : sub.resolves[i][1] = n + d + (i - 1)
            /\ \A i, j \in DOMAIN refs : i # j => refs[i] # refs[j]
            /\ \A i \in DOMAIN refs : refs[i] < total

(* C16: finish on an encoder does not succeed while a pass begun on that
   encoder has not been ended: it returns nothing and the recording flag
   stays open, so the flag is never closed while a pass is active. *)
C16_NoFinishWhilePassActive ==
    [][(/\ Called({"finish"})
        /\ \E pass \in passes : pass.cmb_id = last'.encoder)
       => (/\ last'.ret = None
           /\ command_buffers'[last'.encoder].is_recording
                 = command_buffers[last'.encoder].is_recording)]_vars

(* C17: begin_compute_pass on an encoder with native command buffers removes
   the last one from the sequence, returns a pass that holds it with one more
   share of the encoder's reference count, and changes nothing else of the
   encoder, no other encoder and no device cache; on an empty sequence it
   aborts and changes nothing. *)
C17_ComputePassTakesLastBuffer ==
    [][Called({"begin_compute_pass"}) =>
        LET e   == last'.encoder
            old == command_buffers[e]
            new == command_buffers'[e]
        IN  /\ devices' = devices
            /\ hal' = hal
            /\ \A o \in CommandEncoderIds \ {e} : command_buffers'[o] = command_buffers[o]
            /\ new.trackers = old.trackers
            /\ new.swap_chain_links = old.swap_chain_links
            /\ new.is_recording = old.is_recording
            /\ IF old.raw = <<>>
               THEN /\ last'.result = "panic"
                    /\ last'.ret = None
                    /\ new = old
                    /\ passes' = passes
               ELSE /\ last'.result = "ok"
                    /\ new.raw = SubSeq(old.raw, 1, Len(old.raw) - 1)
                    /\ last'.ret[1].raw = old.raw[Len(old.raw)]
                    /\ last'.ret[1].raw \notin Range(new.raw)
                    /\ last'.ret[1].cmb_id = e
                    /\ new.life_guard.ref_count = old.life_guard.ref_count + 1
                    /\ last'.ret[1] \notin passes
                    /\ passes' = passes \cup {last'.ret[1]}]_vars

(* A compute pass begun on an encoder whose sequence held two native command
   buffers (its first one and the one an ended render pass returned): the
   pass holds the second and the sequence keeps the first. *)
C17_Witness ==
    /\ last.op = "begin_compute_pass"
    /\ last.result = "ok"
    /\ command_buffers[last.encoder].raw = <<IF last.encoder = "e1" THEN 1 ELSE 2>>
    /\ last.ret[1].raw = Cardinality(CommandEncoderIds) + 1
    /\ last.ret[1] \in passes
    /\ command_buffers[last.encoder].trackers # EmptyTrackerSet
    /\ devices["d1"].render_passes # EmptyMap

(* C18: the trackers of an encoder never lose an entry; after a
   begin_render_pass that returned a pass, every view bound as a color,
   depth-stencil or resolve attachment is in the encoder's view tracker and
   its texture is in the texture tracker; a texture that was recorded keeps
   its usage, and a texture that was not is one behind a bound view and is
   registered with the empty usage. *)
C18_AttachmentsTracked ==
    [][/\ \A e \in CommandEncoderIds :
             /\ DOMAIN command_buffers[e].trackers.views
                   \subseteq DOMAIN command_buffers'[e].trackers.views
             /\ DOMAIN command_buffers[e].trackers.textures
                   \subseteq DOMAIN command_buffers'[e].trackers.textures
       /\ BeganRenderPass =>
             LET old  == command_buffers[last'.encoder].trackers
                 new  == command_buffers'[last'.encoder].trackers
                 used == Range(all_views(last'.call.fb_key))
             IN  /\ used \subseteq DOMAIN new.views
                 /\ DOMAIN new.views = DOMAIN old.views \cup used
                 /\ \A v \in used : texture_views[v].texture_id \in DOMAIN new.textures
                 /\ \A x \in DOMAIN new.textures :
                       IF x \in DOMAIN old.textures
                       THEN new.textures[x] = old.textures[x]
                       ELSE /\ new.textures[x] = TextureUsageEmpty
                            /\ \E v \in used : texture_views[v].texture_id = x]_vars

(* A pass with the color views v1 and v2 and the resolve target v3 on an
   encoder that held the texture of v2 and v3 as SAMPLED: both views of that
   texture are tracked, its usage is kept, and the texture of v1 is
   registered with the empty usage. *)
C18_Witness ==
    /\ last.op = "begin_render_pass"
    /\ last.result = "ok"
    /\ Len(last.desc.color_attachments) = 2
    /\ last.call.fb_key.resolves = Some(<<"v3", "v3">>)
    /\ {"v1", "v2", "v3"} \subseteq DOMAIN command_buffers["e1"].trackers.views
    /\ command_buffers["e1"].trackers.textures = [x \in {"x1", "x2"} |->
            IF x = "x1" THEN TextureUsageEmpty ELSE "SAMPLED"]

(* The framebuffer and the render pass of the last begin_render_pass *)
UsedFramebuffer == hal.framebuffers[last.call.framebuffer]
UsedRenderPass == hal.render_passes[last.call.render_pass]

(* C19 as stated: the framebuffer passed to the native begin_render_pass was
   created against the render pass passed in the same call. *)
C19_FramebufferOfSameRenderPass ==
    (last.op = "begin_render_pass" /\ last.result = "ok") =>
        UsedFramebuffer.render_pass = last.call.render_pass

(* C19 as amended: the framebuffer binds the views of the call's
   FramebufferKey and was created against a render pass whose attachments
   have, position by position, the formats and sample counts of the render
   pass passed in the same call; on a framebuffer cache miss it was created
   against that very render pass. *)
C19_FramebufferOfCompatibleRenderPass ==
    (last.op = "begin_render_pass" /\ last.result = "ok") =>
        LET made == hal.render_passes[UsedFramebuffer.render_pass].attachments
            used == UsedRenderPass.attachments
        IN  /\ UsedFramebuffer.attachments = all_views(last.call.fb_key)
            /\ Len(made) = Len(used)
            /\ Len(used) = Len(UsedFramebuffer.attachments)
            /\ \A i \in DOMAIN used :
                  /\ made[i].format = used[i].format
                  /\ made[i].samples = used[i].samples
            /\ ~last.call.framebuffer_hit => UsedFramebuffer.render_pass = last.call.render_pass

(* A call that found its framebuffer cached, created against another render
   pass than the one the call uses (same views, other load operation). *)
C19_Witness ==
    /\ last.op = "begin_render_pass"
    /\ last.result = "ok"
    /\ last.call.framebuffer_hit
    /\ ~last.call.render_pass_hit
    /\ UsedFramebuffer.render_pass # last.call.render_pass

(* The objects of a cache are the native objects, one key each *)
OneObjectPerKey(cache, native) ==
    /\ {cache[k] : k \in DOMAIN cache} = DOMAIN native
    /\ Cardinality(DOMAIN cache) = Cardinality(DOMAIN native)

(* The begin_render_pass calls that threads completed with a pass *)
CompletedPasses ==
    {frames[t].call[1] : t \in {u \in ThreadIds :
        /\ frames[u].pc = "idle"
        /\ frames[u].call # None
        /\ frames[u].call[1].op = "begin_render_pass"
        /\ frames[u].call[1].result = "ok"}}

(* C15: under every interleaving of the calls of two threads, a native render
   pass or framebuffer is created once per key: the lookup and the creation
   of a key run with the cache's lock held, every native object is the entry
   of one key, and calls with equal keys end up with the same object. *)
C15_CreatedOncePerKey ==
    /\ \A t \in ThreadIds :
          /\ frames[t].pc \in {"render_pass_entry", "create_render_pass"}
                => locks["render_passes"].writer = t
          /\ frames[t].pc \in {"framebuffer_entry", "create_framebuffer"}
                => locks["framebuffers"].writer = t
    /\ \A d \in DeviceIds :
          /\ OneObjectPerKey(devices[d].render_passes, hal.render_passes)
          /\ OneObjectPerKey(devices[d].framebuffers, hal.framebuffers)
    /\ \A a, b \in CompletedPasses :
          /\ a.call.rp_key = b.call.rp_key => a.call.render_pass = b.call.render_pass
          /\ a.call.fb_key = b.call.fb_key => a.call.framebuffer = b.call.framebuffer

(* Two threads completed overlapping begin_render_pass calls on different
   encoders with equal RenderPassKeys and equal FramebufferKeys that were not
   cached: one call created the objects, the other found them, and one native
   render pass and one native framebuffer exist. *)
C15_Witness ==
    /\ \A t \in ThreadIds : frames[t].pc = "idle"
    /\ \E a, b \in CompletedPasses :
          /\ a.thread # b.thread
          /\ a.encoder # b.encoder
          /\ a.concurrent /\ b.concurrent
          /\ a.call.rp_key = b.call.rp_key
          /\ a.call.fb_key = b.call.fb_key
          /\ ~a.call.render_pass_hit /\ ~a.call.framebuffer_hit
          /\ b.call.render_pass_hit /\ b.call.framebuffer_hit
          /\ a.call.render_pass = b.call.render_pass
          /\ a.call.framebuffer = b.call.framebuffer
    /\ Cardinality(DOMAIN hal.render_passes) = 1
    /\ Cardinality(DOMAIN hal.framebuffers) = 1

(* The locks thread t holds *)
Holds(t) == {n \in Range(LockOrder) : locks[n].writer = t \/ t \in locks[n].readers}

(* The place of a lock in the order *)
Rank(n) == CHOOSE i \in DOMAIN LockOrder : LockOrder[i] = n

(* The lock thread t is about to take, or NULL *)
Wanted(t) ==
    CASE frames[t].pc = "lock_devices" -> "devices"
      [] frames[t].pc \in {"lock_command_buffers", "finish", "begin_compute_pass"}
            -> "command_buffers"
      [] frames[t].pc = "lock_texture_views" -> "texture_views"
      [] frames[t].pc = "lock_textures" -> "textures"
      [] frames[t].pc = "lock_epoch" -> "epoch"
      [] frames[t].pc = "lock_render_passes" -> "render_passes"
      [] frames[t].pc = "lock_framebuffers" -> "framebuffers"
      [] OTHER -> NULL

(* C20: calls of begin_render_pass, begin_compute_pass and finish from
   several threads never deadlock: while a call is in flight some call in
   flight can take its next step; a thread takes a lock only after every lock
   it holds in the fixed order; a thread whose call returned holds no lock. *)
C20_NoDeadlockFixedLockOrder ==
    /\ InFlight # {} => \E t \in InFlight : ENABLED ThreadStep(t)
    /\ \A t \in ThreadIds :
          /\ Wanted(t) # NULL => \A n \in Holds(t) : Rank(n) < Rank(Wanted(t))
          /\ (/\ frames[t].pc = "idle"
              /\ frames[t].call # None
              /\ frames[t].call[1].result = "ok") => Holds(t) = {}
          /\ frames[t].pc = "idle" /\ frames[t].call = None => Holds(t) = {}

(* A thread waits for the write lock of HUB.command_buffers, holding the
   read lock of HUB.devices, while the other holds every lock of
   begin_render_pass up to the framebuffer cache. *)
C20_Witness ==
    \E t, u \in ThreadIds :
        /\ t # u
        /\ frames[t].pc = "lock_command_buffers"
        /\ Holds(t) = {"devices"}
        /\ frames[u].pc = "create_framebuffer"
        /\ Holds(u) = {"devices", "command_buffers", "texture_views", "render_passes",
                        "framebuffers"}

(* C21: a begin_render_pass with an empty sequence of color attachments
   panics (color_attachments[0]) before any lookup in the render-pass or
   framebuffer cache, with or without a depth-stencil attachment: no pass is
   returned, the caches and the native objects are as before; the
   depth-stencil view and its texture are by then registered in the
   encoder's trackers (a recorded usage is kept, a new texture has the empty
   usage) and stay registered; without a depth-stencil attachment the
   trackers are as before. *)
C21_EmptyColorsAbortAfterDepthStencil ==
    [][(/\ last'.op = "begin_render_pass"
        /\ nops' = nops + 1
        /\ last'.desc.color_attachments = <<>>) =>
          LET ds  == last'.desc.depth_stencil_attachment
              old == command_buffers[last'.encoder].trackers
              new == command_buffers'[last'.encoder].trackers
          IN  /\ last'.result = "panic"
              /\ last'.cause = "contract"
              /\ last'.key = None
              /\ last'.ret = None
              /\ passes' = passes
              /\ devices' = devices
              /\ hal'.render_passes = hal.render_passes
              /\ hal'.framebuffers = hal.framebuffers
              /\ command_buffers'[last'.encoder].swap_chain_links
                    = command_buffers[last'.encoder].swap_chain_links
              /\ new.buffers = old.buffers
              /\ IF ds = None
                 THEN new = old
                 ELSE LET v == ds[1].attachment
                          x == texture_views[v].texture_id
                      IN  /\ DOMAIN new.views = DOMAIN old.views \cup {v}
                          /\ DOMAIN new.textures = DOMAIN old.textures \cup {x}
                          /\ \A y \in DOMAIN old.textures :
                                new.textures[y] = old.textures[y]
                          /\ x \notin DOMAIN old.textures
                                => new.textures[x] = TextureUsageEmpty]_vars

(* The first call on the encoder is a begin_render_pass with no color
   attachment and the depth-stencil view v3: it panicked, the caches are
   empty, and v3 and its texture x2 are registered in the trackers that were
   empty before the call. *)
C21_Witness ==
    /\ nops = 1
    /\ last.op = "begin_render_pass"
    /\ last.result = "panic"
    /\ last.cause = "contract"
    /\ last.desc.color_attachments = <<>>
    /\ last.desc.depth_stencil_attachment # None
    /\ last.desc.depth_stencil_attachment[1].attachment = "v3"
    /\ DOMAIN command_buffers[last.encoder].trackers.views = {"v3"}
    /\ DOMAIN command_buffers[last.encoder].trackers.textures = {"x2"}
    /\ command_buffers[last.encoder].trackers.textures["x2"] = TextureUsageEmpty
    /\ devices["d1"].render_passes = EmptyMap
    /\ devices["d1"].framebuffers = EmptyMap

====
